---------------------------- MODULE Spec2Model ----------------------------
(***************************************************************************)
(* Model of package git of carsonfeng/ZCode: the functional options and    *)
(* New (options file), the argument builders, IsDiffTag, DiffFiles and the *)
(* hook install/uninstall operations (git.go).                             *)
(*                                                                         *)
(* Go strings that the code only passes along are TLA+ strings.  The       *)
(* output of the tag-listing command, which the code splits, is a sequence *)
(* of one-character strings, and so are tag names and the tag-prefix; Str  *)
(* turns a token of the output into a string.                              *)
(* External commands (git, bash) and the filesystem are the environment:   *)
(* their results are inputs of the actions, or state the environment       *)
(* changes.                                                                *)
(***************************************************************************)
EXTENDS Integers, Sequences, FiniteSets, TLC

\* Bounds of the model.
MaxOpts == 2      \* options passed to New
MaxOut == 5       \* characters of the tag-listing command's output
MaxCalls == 3     \* InstallHook/UninstallHook calls in one behaviour

VARIABLES
    opts,       \* the options New was called with
    cmd,        \* the Command New returned
    last,       \* the last builder call on cmd and what it returned
    repoTags,   \* the repository's tags, the last created first
    pc,         \* position of the DiffFiles call in progress
    nameArgs,   \* argument vector of the name-listing command of this DiffFiles call
    diffArgs,   \* argument vector of the full-diff command of this DiffFiles call
    namesRun,   \* result of running the name-listing command
    fullRuns,   \* number of times this DiffFiles call ran the full-diff command
    tagRuns,    \* results of the tag-listing command in this DiffFiles call, in order
    ret,        \* what DiffFiles returned
    hookFile,   \* the prepare-commit-msg file in the hooks directory
    calls       \* the InstallHook/UninstallHook calls made so far, with their results

confVars == <<opts, cmd>>
diffVars == <<repoTags, pc, nameArgs, diffArgs, namesRun, fullRuns, tagRuns, ret>>
hookVars == <<hookFile, calls>>
vars == <<opts, cmd, last, repoTags, pc, nameArgs, diffArgs, namesRun, fullRuns, tagRuns, ret,
          hookFile, calls>>

----------------------------------------------------------------------------
\* Strings

Chars == {"v", " "}

\* Every output of at most MaxOut characters.
TagOuts == UNION {[1..n -> Chars] : n \in 0..MaxOut}

RECURSIVE Str(_)
Str(s) == IF s = <<>> THEN "" ELSE Head(s) \o Str(Tail(s))

\* strings.Split(s, " "): the pieces between the spaces, "" included; one piece
\* (s itself) when s holds no space.
RECURSIVE Split(_)
Split(s) ==
    IF \A i \in 1..Len(s) : s[i] # " "
    THEN <<s>>
    ELSE LET i == CHOOSE k \in 1..Len(s) :
                      s[k] = " " /\ \A j \in 1..(k - 1) : s[j] # " "
         IN  <<SubSeq(s, 1, i - 1)>> \o Split(SubSeq(s, i + 1, Len(s)))

Digit(d) == <<"0", "1", "2", "3", "4", "5", "6", "7", "8", "9">>[d + 1]

RECURSIVE ItoaNat(_)
ItoaNat(n) == IF n < 10 THEN Digit(n) ELSE ItoaNat(n \div 10) \o Digit(n % 10)

\* Itoa with the sign of a negative number lost.
Itoa_NoSign(n) == IF n < 0 THEN ItoaNat(0 - n) ELSE ItoaNat(n)

\* strconv.Itoa
Itoa(n) == IF n < 0 THEN "-" \o ItoaNat(0 - n) ELSE ItoaNat(n)

----------------------------------------------------------------------------
\* Options and New

excludeFromDiff == <<"package-lock.json", "pnpm-lock.yaml", "*.lock", "go.sum">>

Option(kind, n, l, b, s) == [kind |-> kind, int |-> n, list |-> l, bool |-> b, str |-> s]

WithDiffUnified(val) == Option("WithDiffUnified", val, <<>>, FALSE, "")
WithExcludeList(val) == Option("WithExcludeList", 0, val, FALSE, "")
WithEnableAmend(val) == Option("WithEnableAmend", 0, <<>>, val, "")
WithDiffTagPrefix(val) == Option("WithDiffTagPrefix", 0, val, FALSE, "")
WithDiffList(val) == Option("WithDiffList", 0, val, FALSE, "")
WithCommitId(val) == Option("WithCommitId", 0, <<>>, FALSE, val)

\* The zero value of struct config.
config ==
    [diffUnified |-> 0, excludeList |-> <<>>, isAmend |-> FALSE,
     diffTagPrefix |-> <<>>, diffList |-> <<>>, commitId |-> ""]

\* apply whose WithExcludeList closure lacks the empty-list check: an empty list
\* clears what an earlier option set.
apply_ClearOnEmpty(o, c) ==
    CASE o.kind = "WithDiffUnified" -> [c EXCEPT !.diffUnified = o.int]
      [] o.kind = "WithExcludeList" -> [c EXCEPT !.excludeList = o.list]
      [] o.kind = "WithEnableAmend" -> [c EXCEPT !.isAmend = o.bool]
      [] o.kind = "WithDiffTagPrefix" -> [c EXCEPT !.diffTagPrefix = o.list]
      [] o.kind = "WithDiffList" -> [c EXCEPT !.diffList = o.list]
      [] o.kind = "WithCommitId" -> [c EXCEPT !.commitId = o.str]

\* optionFunc.apply: the closure of option o run on config c.
apply(o, c) ==
    CASE o.kind = "WithDiffUnified" -> [c EXCEPT !.diffUnified = o.int]
      [] o.kind = "WithExcludeList" ->
            IF Len(o.list) = 0 THEN c ELSE [c EXCEPT !.excludeList = o.list]
      [] o.kind = "WithEnableAmend" -> [c EXCEPT !.isAmend = o.bool]
      [] o.kind = "WithDiffTagPrefix" -> [c EXCEPT !.diffTagPrefix = o.list]
      [] o.kind = "WithDiffList" -> [c EXCEPT !.diffList = o.list]
      [] o.kind = "WithCommitId" -> [c EXCEPT !.commitId = o.str]

\* The loop of New: the options applied in order.
RECURSIVE applyAll(_, _)
applyAll(os, c) == IF os = <<>> THEN c ELSE applyAll(Tail(os), apply(Head(os), c))

New(os) ==
    LET cfg == applyAll(os, config)
    IN  [diffUnified |-> cfg.diffUnified,
         excludeList |-> excludeFromDiff \o cfg.excludeList,
         isAmend |-> cfg.isAmend,
         diffTagPrefix |-> cfg.diffTagPrefix]

\* The option values the model's callers pass.
UnifiedVals == {-1, 3, 12}
ExcludeVals == {<<>>, <<"a.txt">>, <<"*.lock", "b">>}
PrefixVals == {<<>>, <<"v">>}
Options ==
    {WithDiffUnified(n) : n \in UnifiedVals}
    \cup {WithExcludeList(l) : l \in ExcludeVals}
    \cup {WithEnableAmend(b) : b \in BOOLEAN}
    \cup {WithDiffTagPrefix(p) : p \in PrefixVals}
    \cup {WithDiffList(<<"x.go">>), WithCommitId("c1")}

OptSeqs == UNION {[1..n -> Options] : n \in 0..MaxOpts}

----------------------------------------------------------------------------
\* The builders.  An execution result of the tag-listing command is
\* [ok |-> whether Output() returned a nil error, out |-> its output].

excludeFiles(c) ==
    [i \in 1..Len(c.excludeList) |-> ":(exclude,top)" \o c.excludeList[i]]

TagRet(is, tag1, tag2) == [is |-> is, tag1 |-> tag1, tag2 |-> tag2]

\* IsDiffTag that keeps is = TRUE when the tag-listing command fails.
IsDiffTag_TrueOnFailure(c, exec) ==
    IF c.diffTagPrefix # <<>>
    THEN IF ~exec.ok
         THEN TagRet(TRUE, "", "")
         ELSE LET tags == Split(exec.out)
              IN  IF Len(tags) = 2
                  THEN TagRet(TRUE, Str(tags[1]), Str(tags[2]))
                  ELSE TagRet(TRUE, "", "")
    ELSE TagRet(FALSE, "", "")

\* IsDiffTag that takes the first two tokens of two or more.
IsDiffTag_AtLeastTwo(c, exec) ==
    IF c.diffTagPrefix # <<>>
    THEN IF ~exec.ok
         THEN TagRet(FALSE, "", "")
         ELSE LET tags == Split(exec.out)
              IN  IF Len(tags) >= 2
                  THEN TagRet(TRUE, Str(tags[1]), Str(tags[2]))
                  ELSE TagRet(TRUE, "", "")
    ELSE TagRet(FALSE, "", "")

IsDiffTag(c, exec) ==
    IF c.diffTagPrefix # <<>>
    THEN IF ~exec.ok
         THEN TagRet(FALSE, "", "")
         ELSE LET tags == Split(exec.out)
              IN  IF Len(tags) = 2
                  THEN TagRet(TRUE, Str(tags[1]), Str(tags[2]))
                  ELSE TagRet(TRUE, "", "")
    ELSE TagRet(FALSE, "", "")

\* The range arguments both diffNames and diffFiles append.
rangeArgs(c, exec) ==
    IF c.diffTagPrefix # <<>>
    THEN LET t == IsDiffTag(c, exec)
         IN  IF t.is /\ t.tag1 # "" /\ t.tag2 # ""
             THEN <<t.tag1, t.tag2>>
             ELSE <<>>
    ELSE IF c.isAmend THEN <<"HEAD^", "HEAD">> ELSE <<"--staged">>

diffNamesHead == <<"diff", "--name-only">>

diffNames(c, exec) == diffNamesHead \o rangeArgs(c, exec) \o excludeFiles(c)

diffFilesHead(c) ==
    <<"diff", "--ignore-all-space", "--diff-algorithm=minimal",
      "--unified=" \o Itoa(c.diffUnified)>>

diffFiles(c, exec) == diffFilesHead(c) \o rangeArgs(c, exec) \o excludeFiles(c)

\* commit that appends --amend whatever the flag.
commit_AlwaysAmend(c, val) ==
    <<"commit", "--no-verify", "--signoff", "--message=" \o val, "--amend">>

commit(c, val) ==
    <<"commit", "--no-verify", "--signoff", "--message=" \o val>>
    \o (IF c.isAmend THEN <<"--amend">> ELSE <<>>)

----------------------------------------------------------------------------
\* Results of the external commands.

\* The tag-listing command was not run (no tag-prefix configured).
NoExec == [ran |-> FALSE, ok |-> FALSE, out |-> <<>>]

TagExec(ok, out) == [ran |-> TRUE, ok |-> ok, out |-> out]

\* Every result of running the tag-listing command: it fails, or prints s.
TagExecs == {TagExec(TRUE, s) : s \in TagOuts} \cup {TagExec(FALSE, <<>>)}

\* The tag-listing command as a call on c meets it: not run without a prefix.
TagExecsOf(c) == IF c.diffTagPrefix # <<>> THEN TagExecs ELSE {NoExec}

Run(ok, out) == [ok |-> ok, out |-> out]

\* Results of running the name-listing command and the full-diff command.
NameRuns == {Run(FALSE, ""), Run(TRUE, ""), Run(TRUE, "\n"), Run(TRUE, "a.go\n")}
DiffRuns == {Run(FALSE, ""), Run(TRUE, ""), Run(TRUE, "diff --git a/a.go b/a.go\n")}

Messages == {"", "fix: typo"}

ErrNamesExec == "exec: git diff --name-only failed"
ErrDiffExec == "exec: git diff failed"
ErrHookPath == "exec: git rev-parse --git-path hooks failed"
ErrStaged == "please add your staged changes using git add <files...>"
ErrHookExist == "hook file prepare-commit-msg exist."
ErrHookNotExist == "hook file prepare-commit-msg is not exist."
ErrTemplate == "template: render failed"
ErrWrite == "write: failed"
ErrRemove == "remove: failed"

----------------------------------------------------------------------------
\* State outside the part a specification exercises.

NoCall == [op |-> "none", exec |-> NoExec, tag |-> TagRet(FALSE, "", ""),
           args |-> <<>>, val |-> ""]
NoRet == [text |-> "", err |-> "pending"]
NoRun == Run(FALSE, "")
Absent == [exists |-> FALSE, content |-> ""]

DiffIdle ==
    /\ pc = "idle"
    /\ nameArgs = <<>>
    /\ diffArgs = <<>>
    /\ namesRun = NoRun
    /\ fullRuns = 0
    /\ tagRuns = <<>>
    /\ ret = NoRet

----------------------------------------------------------------------------
\* Specification Spec: a Command built by New from any options, and the
\* builders and IsDiffTag called on it with any result of the tag-listing
\* command.  The builders read cmd and the command's result and nothing else,
\* so a behaviour makes one call: a second call returns what a first call of
\* another behaviour does.

Init ==
    /\ opts \in OptSeqs
    /\ cmd = New(opts)
    /\ last = NoCall
    /\ repoTags = <<>>
    /\ DiffIdle
    /\ hookFile = Absent
    /\ calls = <<>>

CallIsDiffTag ==
    /\ last = NoCall
    /\ \E exec \in TagExecsOf(cmd) :
          last' = [op |-> "IsDiffTag", exec |-> exec, tag |-> IsDiffTag(cmd, exec),
                   args |-> <<>>, val |-> ""]
    /\ UNCHANGED <<confVars, diffVars, hookVars>>

CallDiffNames ==
    /\ last = NoCall
    /\ \E exec \in TagExecsOf(cmd) :
          last' = [op |-> "diffNames", exec |-> exec, tag |-> IsDiffTag(cmd, exec),
                   args |-> diffNames(cmd, exec), val |-> ""]
    /\ UNCHANGED <<confVars, diffVars, hookVars>>

CallDiffFiles ==
    /\ last = NoCall
    /\ \E exec \in TagExecsOf(cmd) :
          last' = [op |-> "diffFiles", exec |-> exec, tag |-> IsDiffTag(cmd, exec),
                   args |-> diffFiles(cmd, exec), val |-> ""]
    /\ UNCHANGED <<confVars, diffVars, hookVars>>

CallCommit ==
    /\ last = NoCall
    /\ \E val \in Messages :
          last' = [op |-> "commit", exec |-> NoExec, tag |-> TagRet(FALSE, "", ""),
                   args |-> commit(cmd, val), val |-> val]
    /\ UNCHANGED <<confVars, diffVars, hookVars>>

Next == CallIsDiffTag \/ CallDiffNames \/ CallDiffFiles \/ CallCommit

Spec == Init /\ [][Next]_vars

----------------------------------------------------------------------------
\* Specification SpecDiff: DiffFiles on a Command, step by step, in a repository
\* whose tags another process may change at any time.  DiffFiles runs two
\* external commands one after the other; each step below is the building and
\* the running of one of them, and the handler's branch on its result.

\* The Commands DiffFiles is called on: one of each combination of amend and
\* tag-prefix.
RunOptSeqs ==
    {<<>>, <<WithEnableAmend(TRUE)>>, <<WithDiffTagPrefix(<<"v">>)>>,
     <<WithEnableAmend(TRUE), WithDiffTagPrefix(<<"v">>)>>}

\* The tag names other processes create.
TagNames == {<<"v", "1">>, <<"v", "2">>, <<"v", "3">>, <<"r", "1">>}

InitDiff ==
    /\ opts \in RunOptSeqs
    /\ cmd = New(opts)
    /\ last = NoCall
    /\ repoTags = <<>>
    /\ DiffIdle
    /\ hookFile = Absent
    /\ calls = <<>>

StartsWith(s, prefix) ==
    /\ Len(prefix) <= Len(s)
    /\ SubSeq(s, 1, Len(prefix)) = prefix

\* tr '\n' ' ': every line of lines followed by a space.
RECURSIVE SpaceEnded(_)
SpaceEnded(lines) ==
    IF lines = <<>> THEN <<>> ELSE Head(lines) \o <<" ">> \o SpaceEnded(Tail(lines))

\* What the shell pipeline of latestTwoTags prints for the tags in tags:
\* git tag --sort=-creatordate | grep '^prefix' | head -n 2 | tr '\n' ' ' | sed 's/ $//'
latestTwoTags(tagGrepHead, tags) ==
    LET Matches(t) == StartsWith(t, tagGrepHead)
        grep == SelectSeq(tags, Matches)
        head == SubSeq(grep, 1, IF Len(grep) < 2 THEN Len(grep) ELSE 2)
        tr == SpaceEnded(head)
    IN  IF tr = <<>> THEN <<>> ELSE SubSeq(tr, 1, Len(tr) - 1)

\* The tag-listing command run now: it fails, or prints the pipeline's output.
TagExecsNow(c) ==
    IF c.diffTagPrefix # <<>>
    THEN {TagExec(TRUE, latestTwoTags(c.diffTagPrefix, repoTags)), TagExec(FALSE, <<>>)}
    ELSE {NoExec}

\* Another process creates a tag.
TagCreate ==
    /\ \E t \in TagNames :
          /\ \A i \in 1..Len(repoTags) : repoTags[i] # t
          /\ repoTags' = <<t>> \o repoTags
    /\ UNCHANGED <<confVars, last, pc, nameArgs, diffArgs, namesRun, fullRuns, tagRuns, ret,
                   hookVars>>

\* Another process deletes a tag.
TagDelete ==
    /\ \E i \in 1..Len(repoTags) :
          repoTags' = SubSeq(repoTags, 1, i - 1) \o SubSeq(repoTags, i + 1, Len(repoTags))
    /\ UNCHANGED <<confVars, last, pc, nameArgs, diffArgs, namesRun, fullRuns, tagRuns, ret,
                   hookVars>>

\* DiffFilesNames without the check of the empty output: the full-diff command is
\* run whenever the name-listing command succeeded.
DiffFilesNames_NoEmptyCheck ==
    /\ pc \in {"idle", "done"}
    /\ \E exec \in TagExecsNow(cmd), run \in NameRuns :
          /\ nameArgs' = diffNames(cmd, exec)
          /\ namesRun' = run
          /\ diffArgs' = <<>>
          /\ fullRuns' = 0
          /\ tagRuns' = <<exec>>
          /\ IF ~run.ok
             THEN pc' = "done" /\ ret' = [text |-> "", err |-> ErrNamesExec]
             ELSE pc' = "full" /\ ret' = NoRet
    /\ UNCHANGED <<confVars, last, repoTags, hookVars>>

\* DiffFiles up to its first two returns: c.diffNames().Output(), the failure
\* returned, the empty output refused.
DiffFilesNames ==
    /\ pc \in {"idle", "done"}
    /\ \E exec \in TagExecsNow(cmd), run \in NameRuns :
          /\ nameArgs' = diffNames(cmd, exec)
          /\ namesRun' = run
          /\ diffArgs' = <<>>
          /\ fullRuns' = 0
          /\ tagRuns' = <<exec>>
          /\ IF ~run.ok
             THEN pc' = "done" /\ ret' = [text |-> "", err |-> ErrNamesExec]
             ELSE IF run.out = ""
                  THEN pc' = "done" /\ ret' = [text |-> "", err |-> ErrStaged]
                  ELSE pc' = "full" /\ ret' = NoRet
    /\ UNCHANGED <<confVars, last, repoTags, hookVars>>

\* The rest of DiffFiles: c.diffFiles().Output() and the two last returns.
DiffFilesFull ==
    /\ pc = "full"
    /\ \E exec \in TagExecsNow(cmd), run \in DiffRuns :
          /\ diffArgs' = diffFiles(cmd, exec)
          /\ fullRuns' = fullRuns + 1
          /\ tagRuns' = Append(tagRuns, exec)
          /\ ret' = IF ~run.ok THEN [text |-> "", err |-> ErrDiffExec]
                    ELSE [text |-> run.out, err |-> "nil"]
    /\ pc' = "done"
    /\ UNCHANGED <<confVars, last, repoTags, nameArgs, namesRun, hookVars>>

NextDiff == TagCreate \/ TagDelete \/ DiffFilesNames \/ DiffFilesFull

SpecDiff == InitDiff /\ [][NextDiff]_vars

----------------------------------------------------------------------------
\* Specification SpecHook: InstallHook and UninstallHook called in any order on
\* one repository.  hookFile.exists is what file.IsFile finds at the target
\* path; calls records every call: the file before and after it, whether the
\* hooks directory resolved, and what the call did.

TemplateContent == "prepare-commit-msg template"
UserHook == [exists |-> TRUE, content |-> "#!/bin/sh user hook"]

\* os.WriteFile opens the file (creating or truncating it), writes and closes:
\* it succeeds, fails before the file exists, or fails after creating it.
WriteOutcomes == {"ok", "open failed", "write failed"}

InitHook ==
    /\ opts = <<>>
    /\ cmd = New(opts)
    /\ last = NoCall
    /\ repoTags = <<>>
    /\ DiffIdle
    /\ hookFile \in {Absent, UserHook}
    /\ calls = <<>>

Call(op, resolved, err, after, rendered, wrote, removed) ==
    [op |-> op, resolved |-> resolved, err |-> err, before |-> hookFile, after |-> after,
     rendered |-> rendered, wrote |-> wrote, removed |-> removed]

\* InstallHook without the check of the existing file: it overwrites.
InstallHookCall_Overwrite(pathOk, templateOk, write) ==
    IF ~pathOk
    THEN Call("InstallHook", FALSE, ErrHookPath, hookFile, FALSE, FALSE, FALSE)
    ELSE IF ~templateOk
    THEN Call("InstallHook", TRUE, ErrTemplate, hookFile, TRUE, FALSE, FALSE)
    ELSE CASE write = "ok" ->
                Call("InstallHook", TRUE, "nil",
                     [exists |-> TRUE, content |-> TemplateContent], TRUE, TRUE, FALSE)
           [] write = "open failed" ->
                Call("InstallHook", TRUE, ErrWrite, hookFile, TRUE, FALSE, FALSE)
           [] write = "write failed" ->
                Call("InstallHook", TRUE, ErrWrite,
                     [exists |-> TRUE, content |-> ""], TRUE, TRUE, FALSE)

\* What InstallHook returns and leaves, as the record of the call.
InstallHookCall(pathOk, templateOk, write) ==
    IF ~pathOk
    THEN Call("InstallHook", FALSE, ErrHookPath, hookFile, FALSE, FALSE, FALSE)
    ELSE IF hookFile.exists
    THEN Call("InstallHook", TRUE, ErrHookExist, hookFile, FALSE, FALSE, FALSE)
    ELSE IF ~templateOk
    THEN Call("InstallHook", TRUE, ErrTemplate, hookFile, TRUE, FALSE, FALSE)
    ELSE CASE write = "ok" ->
                Call("InstallHook", TRUE, "nil",
                     [exists |-> TRUE, content |-> TemplateContent], TRUE, TRUE, FALSE)
           [] write = "open failed" ->
                Call("InstallHook", TRUE, ErrWrite, hookFile, TRUE, FALSE, FALSE)
           [] write = "write failed" ->
                Call("InstallHook", TRUE, ErrWrite,
                     [exists |-> TRUE, content |-> ""], TRUE, TRUE, FALSE)

InstallHook ==
    /\ Len(calls) < MaxCalls
    /\ \E pathOk \in BOOLEAN, templateOk \in BOOLEAN, write \in WriteOutcomes :
          LET c == InstallHookCall(pathOk, templateOk, write)
          IN  /\ hookFile' = c.after
              /\ calls' = Append(calls, c)
    /\ UNCHANGED <<confVars, last, diffVars>>

\* What UninstallHook returns and leaves, as the record of the call.
UninstallHookCall(pathOk, removeOk) ==
    IF ~pathOk
    THEN Call("UninstallHook", FALSE, ErrHookPath, hookFile, FALSE, FALSE, FALSE)
    ELSE IF ~hookFile.exists
    THEN Call("UninstallHook", TRUE, ErrHookNotExist, hookFile, FALSE, FALSE, FALSE)
    ELSE IF removeOk
    THEN Call("UninstallHook", TRUE, "nil", Absent, FALSE, FALSE, TRUE)
    ELSE Call("UninstallHook", TRUE, ErrRemove, hookFile, FALSE, FALSE, FALSE)

UninstallHook ==
    /\ Len(calls) < MaxCalls
    /\ \E pathOk \in BOOLEAN, removeOk \in BOOLEAN :
          LET c == UninstallHookCall(pathOk, removeOk)
          IN  /\ hookFile' = c.after
              /\ calls' = Append(calls, c)
    /\ UNCHANGED <<confVars, last, diffVars>>

NextHook == InstallHook \/ UninstallHook

SpecHook == InitHook /\ [][NextHook]_vars

----------------------------------------------------------------------------
\* What the options ask for, read off opts without running New.

\* Index of the last option of the kind, 0 when none.
LastIdx(kind) ==
    LET idx == {i \in 1..Len(opts) : opts[i].kind = kind}
    IN  IF idx = {} THEN 0 ELSE CHOOSE i \in idx : \A j \in idx : j <= i

\* Index of the last exclusion option with a non-empty list, 0 when none.
LastExcludeIdx ==
    LET idx == {i \in 1..Len(opts) : opts[i].kind = "WithExcludeList" /\ opts[i].list # <<>>}
    IN  IF idx = {} THEN 0 ELSE CHOOSE i \in idx : \A j \in idx : j <= i

AskedAmend ==
    LET i == LastIdx("WithEnableAmend") IN IF i = 0 THEN FALSE ELSE opts[i].bool
AskedPrefix ==
    LET i == LastIdx("WithDiffTagPrefix") IN IF i = 0 THEN <<>> ELSE opts[i].list
AskedExcludes ==
    LET i == LastExcludeIdx IN IF i = 0 THEN <<>> ELSE opts[i].list

\* The decimal strings of the context-line counts the model passes.
Decimal(n) ==
    CASE n = -1 -> "-1" [] n = 0 -> "0" [] n = 3 -> "3" [] n = 12 -> "12"
      [] OTHER -> "?"

Defaults4 == <<"package-lock.json", "pnpm-lock.yaml", "*.lock", "go.sum">>

Pathspecs(l) == [i \in 1..Len(l) |-> ":(exclude,top)" \o l[i]]

IsDiffCall == last.op \in {"diffNames", "diffFiles"}

\* Number of fixed leading arguments of the last diff call.
HeadLen == IF last.op = "diffNames" THEN 2 ELSE 4

\* The arguments of the last diff call after the fixed ones and before the
\* exclusion pathspecs.
RangeOfLast == SubSeq(last.args, HeadLen + 1, Len(last.args) - Len(cmd.excludeList))

\* The tag resolution of the last call gave a pair the builders use.
UsablePair == last.tag.is /\ last.tag.tag1 # "" /\ last.tag.tag2 # ""

\* s holds exactly one space, at position i.
OneSpaceAt(s, i) == i \in 1..Len(s) /\ s[i] = " " /\ \A j \in 1..Len(s) : s[j] = " " => j = i

Member(x, seq) == \E i \in 1..Len(seq) : seq[i] = x

----------------------------------------------------------------------------
\* Claims checked under Spec.

\* C2 (as claimed): every name-listing and full-diff argument vector holds exactly
\* one of the three range forms: tag1 tag2 when the resolution gave a usable pair,
\* and otherwise (prefix configured without a usable pair included) HEAD^ HEAD
\* if the amend flag is set and --staged if not.
C2_RangeTotal ==
    IsDiffCall =>
        RangeOfLast = IF UsablePair THEN <<last.tag.tag1, last.tag.tag2>>
                      ELSE IF cmd.isAmend THEN <<"HEAD^", "HEAD">> ELSE <<"--staged">>

\* C3 (as claimed): with a non-empty tag-prefix IsDiffTag returns is = TRUE whatever
\* the tag-listing command did, (TRUE, "", "") when it failed; is = FALSE only with
\* an empty prefix.
C3_IsTrueWheneverPrefix ==
    last.op = "IsDiffTag" =>
        /\ last.tag.is = (cmd.diffTagPrefix # <<>>)
        /\ (cmd.diffTagPrefix # <<>> /\ ~last.exec.ok) => last.tag = TagRet(TRUE, "", "")

\* C3 (amended): with a non-empty tag-prefix IsDiffTag returns is = TRUE whenever the
\* tag-listing command ran successfully, whatever it printed, and (FALSE, "", "")
\* when the command failed; is = FALSE is returned exactly when the prefix is empty
\* or the command failed.
C3_IsTrueUnlessExecFails ==
    last.op = "IsDiffTag" =>
        /\ last.tag.is = (AskedPrefix # <<>> /\ last.exec.ok)
        /\ ~last.tag.is => last.tag = TagRet(FALSE, "", "")

\* C3 witness: IsDiffTag called with a prefix configured and the tag-listing command failing.
C3_Witness ==
    /\ last.op = "IsDiffTag"
    /\ AskedPrefix # <<>>
    /\ last.exec.ran /\ ~last.exec.ok
    /\ last.tag = TagRet(FALSE, "", "")

\* C4 (as claimed): for a non-empty prefix and a successful tag-listing run with
\* output s, IsDiffTag returns (TRUE, t1, t2) when s splits on a space into exactly
\* two non-empty tokens t1, t2 and (TRUE, "", "") for every other s.
C4_TwoNonEmptyTokens ==
    (last.op = "IsDiffTag" /\ AskedPrefix # <<>> /\ last.exec.ok) =>
        LET s == last.exec.out
        IN  IF \E i \in 2..(Len(s) - 1) : OneSpaceAt(s, i)
            THEN \E i \in 2..(Len(s) - 1) :
                    /\ OneSpaceAt(s, i)
                    /\ last.tag = TagRet(TRUE, Str(SubSeq(s, 1, i - 1)),
                                         Str(SubSeq(s, i + 1, Len(s))))
            ELSE last.tag = TagRet(TRUE, "", "")

\* C4 (amended): for a non-empty prefix and a successful tag-listing run with output
\* s, IsDiffTag returns (TRUE, t1, t2) when s splits on a space into exactly two
\* tokens t1, t2 (s holds exactly one space), either of which may be empty, and
\* (TRUE, "", "") for every other s (no space, or two or more spaces).
C4_TwoTokens ==
    (last.op = "IsDiffTag" /\ AskedPrefix # <<>> /\ last.exec.ok) =>
        LET s == last.exec.out
        IN  IF \E i \in 1..Len(s) : OneSpaceAt(s, i)
            THEN \E i \in 1..Len(s) :
                    /\ OneSpaceAt(s, i)
                    /\ last.tag = TagRet(TRUE, Str(SubSeq(s, 1, i - 1)),
                                         Str(SubSeq(s, i + 1, Len(s))))
            ELSE last.tag = TagRet(TRUE, "", "")

\* C4 witness: the output "vv " splits into "vv" and "", and both are returned.
C4_Witness ==
    /\ last.op = "IsDiffTag"
    /\ last.exec.ok
    /\ last.exec.out = <<"v", "v", " ">>
    /\ last.tag = TagRet(TRUE, "vv", "")

\* C7: the exclusion list of the Command is the four built-in defaults, in order,
\* followed by the entries of the last non-empty exclusion option (an empty one
\* changes nothing), and every diff argument vector ends with one
\* :(exclude,top)<pattern> argument per entry, in order, and holds no other.
C7_ExcludeList ==
    /\ cmd.excludeList = Defaults4 \o AskedExcludes
    /\ IsDiffCall =>
          /\ Len(last.args) >= HeadLen + Len(cmd.excludeList)
          /\ SubSeq(last.args, Len(last.args) - Len(cmd.excludeList) + 1, Len(last.args))
                = Pathspecs(Defaults4 \o AskedExcludes)
          /\ \A i \in 1..(Len(last.args) - Len(cmd.excludeList)) :
                \A k \in 1..Len(cmd.excludeList) :
                    last.args[i] # ":(exclude,top)" \o cmd.excludeList[k]

\* C7 witness: an empty exclusion option after a non-empty one, and a full-diff vector built.
C7_Witness ==
    /\ Len(opts) = 2
    /\ opts[1] = WithExcludeList(<<"*.lock", "b">>)
    /\ opts[2] = WithExcludeList(<<>>)
    /\ last.op = "diffFiles"
    /\ Len(cmd.excludeList) = 6
    /\ last.args[Len(last.args)] = ":(exclude,top)b"

C9_NoPrefixModes ==
    AskedPrefix = <<>> =>
        /\ (last.op = "diffNames" /\ ~AskedAmend) =>
              last.args = <<"diff", "--name-only", "--staged">> \o Pathspecs(cmd.excludeList)
        /\ (IsDiffCall /\ AskedAmend) =>
              /\ RangeOfLast = <<"HEAD^", "HEAD">>
              /\ ~Member("--staged", last.args)
        /\ last.op = "commit" =>
              /\ SubSeq(last.args, 1, 4)
                    = <<"commit", "--no-verify", "--signoff", "--message=" \o last.val>>
              /\ Member("--amend", last.args) = AskedAmend
              /\ \A i \in 1..Len(last.args) : last.args[i] = "--amend" => i = 5

\* C9 witness: amend set without a prefix, and the commit vector built.
C9_Witness ==
    /\ AskedPrefix = <<>>
    /\ AskedAmend
    /\ last.op = "commit"
    /\ last.args[5] = "--amend"

----------------------------------------------------------------------------
\* Claims checked under SpecDiff.

\* C1: the full-diff command is run only after the name-listing command succeeded
\* with non-empty output; when the name-listing command fails DiffFiles returns
\* that failure, when its output is exactly "" DiffFiles returns the 'please add
\* your staged changes' error, and in both cases the full-diff command is never
\* run and the returned text is empty.
C1_FullDiffOnlyAfterNames ==
    /\ (fullRuns > 0 \/ diffArgs # <<>> \/ pc = "full") => (namesRun.ok /\ namesRun.out # "")
    /\ (pc = "done" /\ ~namesRun.ok) =>
          ret = [text |-> "", err |-> ErrNamesExec] /\ fullRuns = 0
    /\ (pc = "done" /\ namesRun.ok /\ namesRun.out = "") =>
          ret = [text |-> "", err |-> ErrStaged] /\ fullRuns = 0
    /\ (pc = "done" /\ namesRun.ok /\ namesRun.out # "") => fullRuns = 1

\* C1 witness: the name-listing command printed nothing and DiffFiles returned.
C1_Witness ==
    /\ pc = "done"
    /\ namesRun = Run(TRUE, "")
    /\ ret = [text |-> "", err |-> ErrStaged]
    /\ fullRuns = 0

\* The range arguments of an argument vector with n fixed leading arguments.
RangeOf(args, n) == SubSeq(args, n + 1, Len(args) - Len(cmd.excludeList))

\* C10 (as claimed): in tag mode, a DiffFiles call built its name-listing command
\* and its full-diff command with the same range arguments, whatever happened to
\* the repository's tags in between.  (Stated for the calls in which both runs of
\* the tag-listing command succeeded and both printed two tags.)
C10_SameRange ==
    (/\ pc = "done"
     /\ fullRuns > 0
     /\ cmd.diffTagPrefix # <<>>
     /\ \A i \in 1..Len(tagRuns) : tagRuns[i].ok /\ Len(Split(tagRuns[i].out)) = 2)
        => RangeOf(nameArgs, 2) = RangeOf(diffArgs, 4)

----------------------------------------------------------------------------
\* Claims checked under SpecHook.

Succeeded(c) == c.err = "nil"

\* The hook file before the first call.
StartedAbsent == IF calls = <<>> THEN ~hookFile.exists ELSE ~calls[1].before.exists

\* The operation of the last call that returned no error, "none" without one.
LastSuccess ==
    LET ok == {k \in 1..Len(calls) : Succeeded(calls[k])}
    IN  IF ok = {} THEN "none" ELSE calls[CHOOSE k \in ok : \A j \in ok : j <= k].op

\* C6 (as claimed): starting from the hook file absent, a successful InstallHook
\* makes it present and an UninstallHook right after it succeeds and makes it
\* absent again; and after any sequence of calls the file is present exactly when
\* the last successful call was InstallHook.  (The UninstallHook is taken to be
\* one whose directory resolution and deletion do not fail, which only makes
\* this easier to satisfy.)
C6_PresentIffLastInstall ==
    StartedAbsent =>
        /\ hookFile.exists = (LastSuccess = "InstallHook")
        /\ \A k \in 1..Len(calls) :
              (calls[k].op = "InstallHook" /\ Succeeded(calls[k])) =>
                  /\ calls[k].after.exists
                  /\ (k < Len(calls) /\ calls[k + 1].op = "UninstallHook"
                        /\ calls[k + 1].err \notin {ErrHookPath, ErrRemove}) =>
                        Succeeded(calls[k + 1]) /\ calls[k + 1].after = Absent

=============================================================================
